---- MODULE Spec2Model ----
(***************************************************************************)
(* A model of src/app.py: the company-code resolver (get_company_code,     *)
(* search_companies), the statement fetcher (get_financial_statement) and  *)
(* the button handler that calls them, of the DART financial-statement     *)
(* lookup app.                                                             *)
(*                                                                         *)
(* Every outbound requests.get is an environment step: its outcome is      *)
(* drawn from a small set of response shapes.  The requests issued and the *)
(* responses received during one call are recorded in history variables    *)
(* (fsRequests, fsResponses, net) so that orderings can be stated as state *)
(* predicates.                                                             *)
(***************************************************************************)
EXTENDS Integers, Sequences, FiniteSets, TLC

VARIABLES
    fpc,          \* position inside get_financial_statement
    year,         \* its argument year
    params,       \* the params dict of the statement request
    data,         \* the last parsed response body
    fsRequests,   \* params of every requests.get issued in this call, in order
    fsResponses,  \* the outcome of each of those requests
    fsResult,     \* what the call returned
    prevRequests,  \* fsRequests of the invocation before this one, when this
                   \* one repeats it with the same arguments
    prevResponses, \* fsResponses of that invocation
    prevResult,    \* fsResult of that invocation
    rpc,            \* position inside get_company_code
    company_name,   \* its argument, a sequence of characters
    lookup,         \* the outcome of the corporation.json request
    bulk,           \* the outcome of the corpCode.xml download
    search_results, \* what search_companies returned
    shown,          \* the candidates offered by st.radio
    rResult,        \* what get_company_code returned
    net,            \* the network calls issued in this call, in order
    searches,       \* calls of search_companies since the app started
    downloads,      \* downloads of corpCode.xml since the app started
    mpc,             \* position inside the button handler
    text_input,      \* the text of st.text_input (company_name of the script)
    selected_year,   \* the year of st.selectbox
    corp_code,       \* what get_company_code gave the handler
    fs,              \* what get_financial_statement gave the handler
    output_columns,  \* the columns of output_df
    notices,         \* the st.error, st.warning and st.success shown, in order
    exported,        \* what st.download_button offers
    flow             \* the operations the handler has started, in order

prevVars == <<prevRequests, prevResponses, prevResult>>

fetchVars ==
    <<fpc, year, params, data, fsRequests, fsResponses, fsResult, prevVars>>

sinceStart == <<searches, downloads>>

resolveVars ==
    <<rpc, company_name, lookup, bulk, search_results, shown, rResult, net,
      sinceStart>>

mainVars ==
    <<mpc, text_input, selected_year, corp_code, fs, output_columns, notices,
      exported, flow>>

vars == <<fetchVars, resolveVars, mainVars>>

-----------------------------------------------------------------------------
(* Bounds of the model *)

\* rows a response's 'list' may carry
MaxRows == 1

\* how many years before the current one the caller may ask for
MaxYearsBack == 1

\* length of the queries made of free characters
MaxQueryLen == 2

\* <corp> elements of a short CORPCODE.xml document
MaxCorps == 2

\* calls of search_companies after which no further query is entered
MaxSearches == 2

-----------------------------------------------------------------------------
(* get_financial_statement *)

\* datetime.today().year
current_year == 2026

Years == (current_year - MaxYearsBack)..current_year

\* status values a body may carry: no 'status' key, success, and two of the
\* service's error codes (013: no data, 020: request limit exceeded)
Statuses == {"absent", "000", "013", "020"}

\* A body without a 'list' key has has_list = FALSE and rows = 0.
Bodies ==
    { [exc |-> FALSE, status |-> s, has_list |-> h, rows |-> n] :
        s \in Statuses, h \in BOOLEAN, n \in 0..MaxRows }

\* The outcomes of one requests.get + response.json(): an exception (transport
\* failure, or a body that is not JSON), or a parsed body.  A body that is
\* JSON but no object behaves as one of these: null raises at the first
\* `'status' in data`, a list is a body with neither status nor list.
ExcOutcome == [exc |-> TRUE, status |-> "absent", has_list |-> FALSE, rows |-> 0]

Outcomes ==
    {ExcOutcome} \cup { b \in Bodies : b.has_list \/ b.rows = 0 }

NoData == [exc |-> FALSE, status |-> "absent", has_list |-> FALSE, rows |-> 0]

Pending == [kind |-> "pending", rows |-> 0]
NoneResult == [kind |-> "None", rows |-> 0]
Raised == [kind |-> "raised", rows |-> 0]
DataFrame(n) == [kind |-> "DataFrame", rows |-> n]

\* params as built at the top of the function
InitialParams(y) == [bsns_year |-> y, reprt_code |-> "11011", fs_div |-> "CFS"]

\* a variant of Failed that also counts a body without rows as a failure
FailedOrEmpty(d) ==
    \/ d.status # "absent" /\ d.status # "000"
    \/ ~d.has_list
    \/ d.rows = 0

\* 'status' in data and data['status'] != '000'
Failed(d) == d.status # "absent" /\ d.status # "000"

\* params['fs_div'] = 'OFS'
Standalone(p) == [p EXCEPT !.fs_div = "OFS"]

\* a variant of Quarter4 that goes straight to report 11013
Quarter4Skipped(p) == [p EXCEPT !.reprt_code = "11013"]

\* params['reprt_code'] = '11014'
Quarter4(p) == [p EXCEPT !.reprt_code = "11014"]

\* a variant of Quarter3 that leaves the report code as it is
Quarter3Unchanged(p) == p

\* params['reprt_code'] = '11013'
Quarter3(p) == [p EXCEPT !.reprt_code = "11013"]

\* a variant of PriorYear that also goes back to the consolidated statement
PriorYearConsolidated(p, y) ==
    [p EXCEPT !.bsns_year = y - 1, !.reprt_code = "11011", !.fs_div = "CFS"]

\* params['bsns_year'] = str(year-1); params['reprt_code'] = '11011'
PriorYear(p, y) == [p EXCEPT !.bsns_year = y - 1, !.reprt_code = "11011"]

\* a variant of OnFetchException that lets the exception leave the function
OnFetchExceptionReraise == Raised

\* except Exception as e: st.error(...); return None
OnFetchException == NoneResult

\* What the backend may answer to a request with params p.  When the call
\* repeats an invocation, the backend is the same function of the request as
\* it was then: a variant it answered before gets the answer it got.
Answers(p) ==
    LET asked == { i \in 1..Len(prevRequests) : prevRequests[i] = p }
    IN  IF asked = {} THEN Outcomes ELSE { prevResponses[i] : i \in asked }

\* a variant of Get with a try/except around the single request: an exception
\* is taken for an error body and the cascade goes on
GetSwallowing(p, next) ==
    \E o \in Answers(p) :
        /\ params' = p
        /\ fsRequests' = Append(fsRequests, p)
        /\ fsResponses' = Append(fsResponses, o)
        /\ fpc' = next
        /\ fsResult' = fsResult
        /\ data' = IF o.exc THEN [NoData EXCEPT !.status = "013"] ELSE o
        /\ year' = year
        /\ UNCHANGED prevVars
        /\ UNCHANGED <<resolveVars, mainVars>>

\* response = requests.get(url, params=params); data = response.json()
\* with params already updated to p.  An exception leaves the try block.
Get(p, next) ==
    \E o \in Answers(p) :
        /\ params' = p
        /\ fsRequests' = Append(fsRequests, p)
        /\ fsResponses' = Append(fsResponses, o)
        /\ IF o.exc
             THEN /\ fpc' = "done"
                  /\ fsResult' = OnFetchException
                  /\ data' = data
             ELSE /\ fpc' = next
                  /\ fsResult' = fsResult
                  /\ data' = o
        /\ year' = year
        /\ UNCHANGED prevVars
        /\ UNCHANGED <<resolveVars, mainVars>>

\* a conditional step whose condition is false
Skip(next) ==
    /\ fpc' = next
    /\ UNCHANGED <<year, params, data, fsRequests, fsResponses, fsResult>>
    /\ UNCHANGED prevVars
    /\ UNCHANGED <<resolveVars, mainVars>>

\* lines 144-153: the function is entered with year y
StartFetch(y) ==
    /\ year' = y
    /\ params' = InitialParams(y)
    /\ fpc' = "L156"
    /\ data' = NoData
    /\ fsRequests' = <<>>
    /\ fsResponses' = <<>>
    /\ fsResult' = Pending

CallFetch ==
    /\ fpc \in {"idle", "done"}
    /\ \E y \in Years : StartFetch(y)
    /\ prevRequests' = <<>>
    /\ prevResponses' = <<>>
    /\ prevResult' = Pending
    /\ UNCHANGED <<resolveVars, mainVars>>

\* a variant of Reinvoke in which params is a dict that outlives the call
ReinvokeKeepingParams ==
    /\ fpc = "done"
    /\ prevResult = Pending
    /\ prevRequests' = fsRequests
    /\ prevResponses' = fsResponses
    /\ prevResult' = fsResult
    /\ fpc' = "L156"
    /\ data' = NoData
    /\ fsRequests' = <<>>
    /\ fsResponses' = <<>>
    /\ fsResult' = Pending
    /\ UNCHANGED <<year, params>>
    /\ UNCHANGED <<resolveVars, mainVars>>

\* get_financial_statement called once more with the arguments of the call
\* that has just returned, against the same backend: the requests, responses
\* and result of that call are kept to compare with
Reinvoke ==
    /\ fpc = "done"
    /\ prevResult = Pending
    /\ prevRequests' = fsRequests
    /\ prevResponses' = fsResponses
    /\ prevResult' = fsResult
    /\ year' = year
    /\ params' = InitialParams(year)
    /\ fpc' = "L156"
    /\ data' = NoData
    /\ fsRequests' = <<>>
    /\ fsResponses' = <<>>
    /\ fsResult' = Pending
    /\ UNCHANGED <<resolveVars, mainVars>>

RequestConsolidated ==
    /\ fpc = "L156"
    /\ Get(params, "L160")

RequestStandalone ==
    /\ fpc = "L160"
    /\ IF Failed(data) THEN Get(Standalone(params), "L167") ELSE Skip("L167")

RequestQuarter4 ==
    /\ fpc = "L167"
    /\ IF Failed(data) THEN Get(Quarter4(params), "L174") ELSE Skip("L180")

RequestQuarter3 ==
    /\ fpc = "L174"
    /\ IF Failed(data) THEN Get(Quarter3(params), "L180") ELSE Skip("L180")

\* a variant of RequestPriorYear that goes back a year whatever year was asked
RequestPriorYearAlways ==
    /\ fpc = "L180"
    /\ IF Failed(data)
         THEN Get(PriorYear(params, year), "L187")
         ELSE Skip("L187")

RequestPriorYear ==
    /\ fpc = "L180"
    /\ IF Failed(data) /\ year = current_year
         THEN Get(PriorYear(params, year), "L187")
         ELSE Skip("L187")

\* a variant of ReturnValue without the check of data['list']
ReturnValueWithoutListCheck(d) ==
    IF Failed(d) THEN NoneResult ELSE DataFrame(d.rows)

\* lines 187-196
ReturnValue(d) ==
    IF Failed(d) THEN NoneResult
    ELSE IF ~d.has_list \/ d.rows = 0 THEN NoneResult
    ELSE DataFrame(d.rows)

ReturnStatement ==
    /\ fpc = "L187"
    /\ fpc' = "done"
    /\ fsResult' = ReturnValue(data)
    /\ UNCHANGED <<year, params, data, fsRequests, fsResponses>>
    /\ UNCHANGED prevVars
    /\ UNCHANGED <<resolveVars, mainVars>>

FetchStep ==
    \/ RequestConsolidated
    \/ RequestStandalone
    \/ RequestQuarter4
    \/ RequestQuarter3
    \/ RequestPriorYear
    \/ ReturnStatement

-----------------------------------------------------------------------------
(* Strings.  A string is a sequence of characters; a character is written  *)
(* as a token: a Latin letter as itself, a Hangul syllable romanised       *)
(* ("sam" for U+C0BC, "yi" for U+C774, "oh" for U+C624).                   *)

\* Python's `sub in s` on strings
Contains(sub, s) ==
    \E i \in 0..(Len(s) - Len(sub)) : SubSeq(s, i + 1, i + Len(sub)) = sub

LowerChar(c) ==
    CASE c = "S" -> "s" [] c = "K" -> "k" [] c = "L" -> "l"
      [] c = "G" -> "g" [] c = "N" -> "n" [] c = "A" -> "a"
      [] c = "V" -> "v" [] c = "E" -> "e" [] c = "R" -> "r"
      [] OTHER -> c

\* str.lower()
Lower(s) == [i \in 1..Len(s) |-> LowerChar(s[i])]

\* str.strip() on the stock codes of the model: "", " " and a six-digit code
Strip(t) == IF t = " " THEN "" ELSE t

-----------------------------------------------------------------------------
(* get_company_code and search_companies *)

\* the curated table, in insertion order
major_companies ==
    << [name |-> <<"sam", "seong", "jeon", "ja">>,       code |-> "00126380"],
       [name |-> <<"hyeon", "dae", "ja", "dong", "cha">>, code |-> "00164742"],
       [name |-> <<"S", "K", "ha", "yi", "nik", "seu">>,  code |-> "00164779"],
       [name |-> <<"L", "G", "jeon", "ja">>,              code |-> "00356361"],
       [name |-> <<"N", "A", "V", "E", "R">>,             code |-> "00311863"],
       [name |-> <<"ka", "ka", "oh">>,                    code |-> "00341682"] >>

MajorIndex == 1..Len(major_companies)

\* company_name in major_companies
InMajor(q) == \E i \in MajorIndex : major_companies[i].name = q

\* a variant of MajorCode that reads the entry after the matching one
MajorCodeShifted(q) ==
    LET i == CHOOSE j \in MajorIndex : major_companies[j].name = q
    IN  major_companies[(i % Len(major_companies)) + 1].code

\* major_companies[company_name]
MajorCode(q) ==
    LET i == CHOOSE j \in MajorIndex : major_companies[j].name = q
    IN  major_companies[i].code

\* a variant of PartialMatch that only looks for the curated name in the query
PartialMatchOneWay(q, name) == Contains(name, q)

\* company_name in name or name in company_name
PartialMatch(q, name) == Contains(q, name) \/ Contains(name, q)

HasPartial(q) == \E i \in MajorIndex : PartialMatch(q, major_companies[i].name)

\* the code of the first entry, in iteration order, that matches partially
FirstPartialCode(q) ==
    LET i == CHOOSE j \in MajorIndex :
                 /\ PartialMatch(q, major_companies[j].name)
                 /\ \A k \in 1..(j - 1) :
                       ~PartialMatch(q, major_companies[k].name)
    IN  major_companies[i].code

\* results[:10]
TopN == 10

\* The outcomes of the corporation.json request: an exception, or a parsed
\* body with its status and its candidate list (the corp_code of each).
LookupStatuses == {"absent", "000", "013"}

CandidateLists == { <<>>, <<"00401731">>, <<"00258801", "00401731">> }

NoLookup == [exc |-> FALSE, status |-> "absent", has_list |-> FALSE, list |-> <<>>]

LookupOutcomes ==
    { [NoLookup EXCEPT !.exc = TRUE] }
      \cup { [exc |-> FALSE, status |-> st, has_list |-> FALSE, list |-> <<>>] :
               st \in LookupStatuses }
      \cup { [exc |-> FALSE, status |-> st, has_list |-> TRUE, list |-> l] :
               st \in LookupStatuses, l \in CandidateLists }

\* 'status' in data and data['status'] == '000' and 'list' in data and
\* len(data['list']) > 0
LookupFound(d) ==
    ~d.exc /\ d.status = "000" /\ d.has_list /\ Len(d.list) > 0

\* The <corp> elements of CORPCODE.xml: a name and a stock code each ("" for
\* a missing element, " " for an unlisted company), the corp_code being the
\* element's own (its position, written as a string).
CorpNames ==
    { <<"N", "A">>, <<"n", "a", "N">>, <<"b", "N", "a", "b">> }

CorpPool ==
    { [corp_name |-> n, stock_code |-> t] :
        n \in CorpNames, t \in {" ", "005930"} }
      \cup { [corp_name |-> <<"a">>, stock_code |-> ""] }

RECURSIVE SeqsUpTo(_, _)
SeqsUpTo(S, n) ==
    IF n = 0 THEN { <<>> }
    ELSE LET shorter == SeqsUpTo(S, n - 1)
         IN  shorter \cup { Append(q, x) : q \in shorter, x \in S }

RECURSIVE Repeat(_, _)
Repeat(q, k) == IF k = 0 THEN <<>> ELSE q \o Repeat(q, k - 1)

\* a document: short ones of every shape, and long ones that repeat a short
\* one, so that a query can have more than TopN matches
Documents ==
    { Repeat(b, k) : b \in SeqsUpTo(CorpPool, MaxCorps), k \in {1, 6} }

Corps(doc) ==
    [i \in 1..Len(doc) |->
        [corp_name |-> doc[i].corp_name,
         corp_code |-> ToString(i),
         stock_code |-> doc[i].stock_code]]

NoBulk == [kind |-> "none", corps |-> <<>>]

\* The outcomes of the corpCode.xml download: requests.get raises, a status
\* code other than 200, a body that is no zip holding CORPCODE.xml, a
\* document that does not parse, or a document.
BulkOutcomes ==
    { [kind |-> k, corps |-> <<>>] : k \in {"exc", "http_error", "bad_zip", "bad_xml"} }
      \cup { [kind |-> "ok", corps |-> Corps(doc)] : doc \in Documents }

\* stock_code and stock_code.strip() != ''
IsListed(t) == t # "" /\ Strip(t) # ""

\* the dict appended to results
ResultOf(corp) ==
    [corp_name |-> corp.corp_name, corp_code |-> corp.corp_code,
     stock_code |-> corp.stock_code, is_listed |-> IsListed(corp.stock_code)]

\* company_name.lower() in corp_name.lower()
NameMatches(q, corp) == Contains(Lower(q), Lower(corp.corp_name))

Abs(n) == IF n < 0 THEN -n ELSE n

\* a variant of SortKey that leaves the length of the name out
SortKeyWithoutLength(r, q) == << IF r.is_listed THEN 0 ELSE 1, 0 >>

\* a variant of SortKey that puts the unlisted companies first
SortKeyUnlistedFirst(r, q) ==
    << IF r.is_listed THEN 1 ELSE 0, Abs(Len(r.corp_name) - Len(q)) >>

\* (not x['is_listed'], abs(len(x['corp_name']) - len(company_name)))
SortKey(r, q) ==
    << IF r.is_listed THEN 0 ELSE 1, Abs(Len(r.corp_name) - Len(q)) >>

\* tuple comparison
KeyLess(a, b) == a[1] < b[1] \/ (a[1] = b[1] /\ a[2] < b[2])

\* list.sort is stable: an element goes after the elements whose key is not
\* greater than its own
RECURSIVE InsertSorted(_, _, _)
InsertSorted(r, sorted, q) ==
    IF sorted = <<>> THEN <<r>>
    ELSE IF KeyLess(SortKey(r, q), SortKey(Head(sorted), q))
           THEN <<r>> \o sorted
           ELSE <<Head(sorted)>> \o InsertSorted(r, Tail(sorted), q)

RECURSIVE SortResults(_, _)
SortResults(rs, q) ==
    IF rs = <<>> THEN <<>>
    ELSE InsertSorted(rs[Len(rs)], SortResults(SubSeq(rs, 1, Len(rs) - 1), q), q)

FirstN(rs, n) == SubSeq(rs, 1, IF Len(rs) < n THEN Len(rs) ELSE n)

\* lines 60-82: the matching corps, sorted, cut to TopN
FindCompanies(q, corps) ==
    LET hits == SelectSeq(corps, LAMBDA c : NameMatches(q, c))
        results == [i \in 1..Len(hits) |-> ResultOf(hits[i])]
    IN  FirstN(SortResults(results, q), TopN)

\* search_companies: what it returns for an outcome of the download
SearchCompaniesResult(q, b) ==
    IF b.kind = "ok" THEN FindCompanies(q, b.corps) ELSE <<>>

NoCode == [kind |-> "pending", code |-> ""]
NoneCode == [kind |-> "None", code |-> ""]
Code(c) == [kind |-> "code", code |-> c]

\* f"{r['corp_name']} ({listed or unlisted})"
OptionLabel(r) == <<r.corp_name, r.is_listed>>

\* company_options.index(label)
IndexOf(rs, label) ==
    CHOOSE i \in 1..Len(rs) :
        /\ OptionLabel(rs[i]) = label
        /\ \A k \in 1..(i - 1) : OptionLabel(rs[k]) # label

\* the queries of the model: every substring of a curated name, every
\* curated name with one character before or after it, and the short strings
\* over FreeChars
FreeChars == {"N", "a"}

Substrings(s) ==
    { SubSeq(s, i, j) : i \in 1..(Len(s) + 1), j \in 0..Len(s) }

Queries ==
    UNION { Substrings(major_companies[i].name) : i \in MajorIndex }
      \cup { <<c>> \o major_companies[i].name : i \in MajorIndex, c \in FreeChars }
      \cup { Append(major_companies[i].name, c) : i \in MajorIndex, c \in FreeChars }
      \cup SeqsUpTo(FreeChars, MaxQueryLen)

\* line 92: the function is entered with company_name q
StartResolve(q) ==
    /\ company_name' = q
    /\ rpc' = "L94"
    /\ lookup' = NoLookup
    /\ bulk' = NoBulk
    /\ search_results' = <<>>
    /\ shown' = <<>>
    /\ rResult' = NoCode
    /\ net' = <<>>

CallResolve ==
    /\ rpc = "idle"
    /\ \E q \in Queries : StartResolve(q)
    /\ UNCHANGED sinceStart
    /\ UNCHANGED <<fetchVars, mainVars>>

\* lines 94-95
ExactMatch ==
    /\ rpc = "L94"
    /\ IF InMajor(company_name)
         THEN rpc' = "done" /\ rResult' = Code(MajorCode(company_name))
         ELSE rpc' = "L98" /\ rResult' = rResult
    /\ UNCHANGED <<company_name, lookup, bulk, search_results, shown, net>>
    /\ UNCHANGED sinceStart
    /\ UNCHANGED <<fetchVars, mainVars>>

\* lines 98-100
PartialMatchLoop ==
    /\ rpc = "L98"
    /\ IF HasPartial(company_name)
         THEN rpc' = "done" /\ rResult' = Code(FirstPartialCode(company_name))
         ELSE rpc' = "L113" /\ rResult' = rResult
    /\ UNCHANGED <<company_name, lookup, bulk, search_results, shown, net>>
    /\ UNCHANGED sinceStart
    /\ UNCHANGED <<fetchVars, mainVars>>

\* a variant of NameLookup without the try/except: a failure of the request
\* ends the resolution with nothing
NameLookupAborting ==
    /\ rpc = "L113"
    /\ \E o \in LookupOutcomes :
        /\ lookup' = o
        /\ net' = Append(net, "corporation.json")
        /\ IF LookupFound(o)
             THEN rpc' = "done" /\ rResult' = Code(o.list[1])
             ELSE IF o.exc
                    THEN rpc' = "done" /\ rResult' = NoneCode
                    ELSE rpc' = "L123" /\ rResult' = rResult
    /\ UNCHANGED <<company_name, bulk, search_results, shown>>
    /\ UNCHANGED sinceStart
    /\ UNCHANGED <<fetchVars, mainVars>>

\* a variant of NameLookup that notes the candidate without returning it
NameLookupNotReturning ==
    /\ rpc = "L113"
    /\ \E o \in LookupOutcomes :
        /\ lookup' = o
        /\ net' = Append(net, "corporation.json")
        /\ rResult' = IF LookupFound(o) THEN Code(o.list[1]) ELSE rResult
    /\ rpc' = "L123"
    /\ UNCHANGED <<company_name, bulk, search_results, shown>>
    /\ UNCHANGED sinceStart
    /\ UNCHANGED <<fetchVars, mainVars>>

\* lines 112-120: the request, and the first candidate when there is one; an
\* exception is passed over
NameLookup ==
    /\ rpc = "L113"
    /\ \E o \in LookupOutcomes :
        /\ lookup' = o
        /\ net' = Append(net, "corporation.json")
        /\ IF LookupFound(o)
             THEN rpc' = "done" /\ rResult' = Code(o.list[1])
             ELSE rpc' = "L123" /\ rResult' = rResult
    /\ UNCHANGED <<company_name, bulk, search_results, shown>>
    /\ UNCHANGED sinceStart
    /\ UNCHANGED <<fetchVars, mainVars>>

\* a variant of SearchCompanies that downloads the document the first time
\* only, and finds nothing afterwards
SearchCompaniesOnce ==
    /\ rpc = "L123"
    /\ IF downloads = 0
         THEN /\ \E b \in BulkOutcomes :
                   /\ bulk' = b
                   /\ search_results' = SearchCompaniesResult(company_name, b)
              /\ net' = Append(net, "corpCode.xml")
              /\ downloads' = downloads + 1
         ELSE /\ bulk' = bulk
              /\ search_results' = <<>>
              /\ net' = net
              /\ downloads' = downloads
    /\ searches' = searches + 1
    /\ rpc' = "L125"
    /\ UNCHANGED <<company_name, lookup, shown, rResult>>
    /\ UNCHANGED <<fetchVars, mainVars>>

\* line 123: search_results = search_companies(company_name), which
\* downloads corpCode.xml (line 42) whenever it is called
SearchCompanies ==
    /\ rpc = "L123"
    /\ \E b \in BulkOutcomes :
        /\ bulk' = b
        /\ search_results' = SearchCompaniesResult(company_name, b)
    /\ net' = Append(net, "corpCode.xml")
    /\ searches' = searches + 1
    /\ downloads' = downloads + 1
    /\ rpc' = "L125"
    /\ UNCHANGED <<company_name, lookup, shown, rResult>>
    /\ UNCHANGED <<fetchVars, mainVars>>

\* lines 125-141: one result is returned; of several, the one st.radio says
\* is selected; none gives None
ReturnSearchResult ==
    /\ rpc = "L125"
    /\ rpc' = "done"
    /\ IF Len(search_results) = 0
         THEN rResult' = NoneCode /\ shown' = shown
         ELSE IF Len(search_results) = 1
           THEN rResult' = Code(search_results[1].corp_code) /\ shown' = shown
           ELSE /\ shown' = search_results
                /\ \E sel \in 1..Len(search_results) :
                     rResult' =
                        Code(search_results[
                               IndexOf(search_results,
                                       OptionLabel(search_results[sel]))].corp_code)
    /\ UNCHANGED <<company_name, lookup, bulk, search_results, net>>
    /\ UNCHANGED sinceStart
    /\ UNCHANGED <<fetchVars, mainVars>>

\* the locals of get_company_code after it has returned
ResolveReturned ==
    /\ rpc' = "idle"
    /\ company_name' = <<>>
    /\ lookup' = NoLookup
    /\ bulk' = NoBulk
    /\ search_results' = <<>>
    /\ shown' = <<>>
    /\ rResult' = NoCode
    /\ net' = <<>>

\* get_company_code has returned: its locals are gone, and the app waits
\* for the next query
ReturnToCaller ==
    /\ rpc = "done"
    /\ searches < MaxSearches
    /\ ResolveReturned
    /\ UNCHANGED sinceStart
    /\ UNCHANGED <<fetchVars, mainVars>>

ResolveStep ==
    \/ ExactMatch
    \/ PartialMatchLoop
    \/ NameLookup
    \/ SearchCompanies
    \/ ReturnSearchResult

FetchIdle ==
    /\ fpc = "idle"
    /\ year = current_year
    /\ params = InitialParams(current_year)
    /\ data = NoData
    /\ fsRequests = <<>>
    /\ fsResponses = <<>>
    /\ fsResult = Pending
    /\ prevRequests = <<>>
    /\ prevResponses = <<>>
    /\ prevResult = Pending

ResolveIdle ==
    /\ rpc = "idle"
    /\ company_name = <<>>
    /\ lookup = NoLookup
    /\ bulk = NoBulk
    /\ search_results = <<>>
    /\ shown = <<>>
    /\ rResult = NoCode
    /\ net = <<>>
    /\ searches = 0
    /\ downloads = 0

NoExport == [kind |-> "none", columns |-> <<>>, rows |-> 0, file_year |-> 0]

NoFrame == [kind |-> "pending", rows |-> 0, columns |-> <<>>]

\* the script before the button is pressed
MainIdle ==
    /\ mpc = "idle"
    /\ text_input = <<>>
    /\ selected_year = current_year
    /\ corp_code = NoCode
    /\ fs = NoFrame
    /\ output_columns = <<>>
    /\ notices = <<>>
    /\ exported = NoExport
    /\ flow = <<>>

InitResolve == FetchIdle /\ ResolveIdle /\ MainIdle

NextResolve ==
    \/ CallResolve
    \/ ResolveStep

SpecResolve == InitResolve /\ [][NextResolve]_vars

NextResolveAgain ==
    \/ CallResolve
    \/ ResolveStep
    \/ ReturnToCaller

\* one resolution after another in the same process
SpecResolveAgain == InitResolve /\ [][NextResolveAgain]_vars

InitFetch == FetchIdle /\ ResolveIdle /\ MainIdle

NextFetch ==
    \/ CallFetch
    \/ FetchStep

SpecFetch == InitFetch /\ [][NextFetch]_vars

\* The backend answers every request (with a body or an error), and the
\* function runs to its return once called.
SpecFetchFair == SpecFetch /\ WF_vars(FetchStep)

NextRefetch ==
    \/ CallFetch
    \/ FetchStep
    \/ Reinvoke

\* calls of get_financial_statement, each of which may be repeated once with
\* the same arguments against the same backend
SpecRefetch == InitFetch /\ [][NextRefetch]_vars

-----------------------------------------------------------------------------
(* The button handler, lines 210-259.  get_company_code and                *)
(* get_financial_statement run inside it step by step; when one returns,   *)
(* the handler keeps the value returned and the function's locals are      *)
(* gone.                                                                   *)

\* str.strip() on a text: what lies between its first and its last
\* character that is no white space
StripText(s) ==
    LET keep == { i \in 1..Len(s) : s[i] # " " }
    IN  IF keep = {} THEN <<>>
        ELSE SubSeq(s, CHOOSE i \in keep : \A j \in keep : i <= j,
                       CHOOSE i \in keep : \A j \in keep : j <= i)

\* a variant of Blank that does not strip the text
BlankWithoutStrip(q) == q = <<>>

\* not company_name.strip()
Blank(q) == StripText(q) = <<>>

\* the texts entered: nothing, white space, a curated name, a part of one,
\* and two texts the curated table does not know, one with a space in front
Texts ==
    { <<>>, <<" ">>, <<" ", " ">>,
      <<"N", "A", "V", "E", "R">>, <<"L", "G", "jeon">>,
      <<"N", "a">>, <<" ", "N">> }

desired_columns == <<"sj_nm", "account_nm", "thstrm_amount", "frmtrm_amount">>

\* fs.columns: the keys of the rows of the response the table was built
\* from.  The cascade never looks at them, so the model draws them when the
\* table reaches the handler: all of the service's columns, some of the
\* desired ones in another order, none of the desired ones, and rows that
\* are empty dicts.
ColumnLists ==
    { <<"rcept_no", "sj_nm", "account_nm", "thstrm_amount", "frmtrm_amount", "ord">>,
      <<"thstrm_amount", "sj_nm", "rcept_no">>,
      <<"rcept_no", "ord">>,
      <<>> }

NoneFrame == [kind |-> "None", rows |-> 0, columns |-> <<>>]

\* the table get_financial_statement returned, with its columns
Frame(r, cols) ==
    IF r.kind = "DataFrame"
      THEN [kind |-> "DataFrame", rows |-> r.rows, columns |-> cols]
      ELSE NoneFrame

\* fs is None or fs.empty
NoneOrEmpty(f) == f.kind = "None" \/ f.rows = 0 \/ f.columns = <<>>

\* [col for col in desired_columns if col in fs.columns]
AvailableColumns(cols) ==
    SelectSeq(desired_columns, LAMBDA c : \E i \in 1..Len(cols) : cols[i] = c)

\* a variant of OutputColumns that never selects
OutputColumnsUnselected(cols) == cols

\* lines 230-235: output_df = fs, or fs[available_columns]
OutputColumns(cols) ==
    IF AvailableColumns(cols) = <<>> THEN cols ELSE AvailableColumns(cols)

\* the locals of get_financial_statement after it has returned
FetchReturned ==
    /\ fpc' = "idle"
    /\ year' = current_year
    /\ params' = InitialParams(current_year)
    /\ data' = NoData
    /\ fsRequests' = <<>>
    /\ fsResponses' = <<>>
    /\ fsResult' = Pending

\* lines 210-215: the button is pressed with a text and a year; a blank text
\* is refused, any other is handed to get_company_code as it is
ClickButton ==
    /\ mpc = "idle"
    /\ \E q \in Texts, y \in Years :
        /\ text_input' = q
        /\ selected_year' = y
        /\ IF Blank(q)
             THEN /\ mpc' = "done"
                  /\ notices' = Append(notices, "enter_name")
                  /\ flow' = flow
                  /\ UNCHANGED <<rpc, company_name, lookup, bulk,
                                 search_results, shown, rResult, net>>
             ELSE /\ mpc' = "L215"
                  /\ notices' = notices
                  /\ flow' = Append(flow, "resolve")
                  /\ StartResolve(q)
    /\ UNCHANGED <<corp_code, fs, output_columns, exported>>
    /\ UNCHANGED sinceStart
    /\ UNCHANGED fetchVars

\* lines 215-218: get_company_code has returned
AfterResolve ==
    /\ mpc = "L215"
    /\ rpc = "done"
    /\ corp_code' = rResult
    /\ ResolveReturned
    /\ IF rResult.kind = "None"
         THEN mpc' = "done" /\ notices' = Append(notices, "no_code")
         ELSE mpc' = "L221" /\ notices' = notices
    /\ UNCHANGED <<text_input, selected_year, fs, output_columns, exported, flow>>
    /\ UNCHANGED sinceStart
    /\ UNCHANGED fetchVars

\* line 221: fs = get_financial_statement(corp_code, selected_year)
CallFetchStatement ==
    /\ mpc = "L221"
    /\ fpc = "idle"
    /\ StartFetch(selected_year)
    /\ mpc' = "L223"
    /\ flow' = Append(flow, "fetch")
    /\ UNCHANGED <<text_input, selected_year, corp_code, fs, output_columns,
                   notices, exported>>
    /\ UNCHANGED prevVars
    /\ UNCHANGED resolveVars

\* lines 221-224: get_financial_statement has returned
AfterFetch ==
    /\ mpc = "L223"
    /\ fpc = "done"
    /\ \E cols \in ColumnLists :
        /\ fs' = Frame(fsResult, cols)
        /\ IF NoneOrEmpty(Frame(fsResult, cols))
             THEN mpc' = "done" /\ notices' = Append(notices, "no_statement")
             ELSE mpc' = "L226" /\ notices' = notices
    /\ FetchReturned
    /\ UNCHANGED <<text_input, selected_year, corp_code, output_columns,
                   exported, flow>>
    /\ UNCHANGED prevVars
    /\ UNCHANGED resolveVars

\* lines 226-239: the columns of output_df, the warning when none of the
\* desired ones is there, and the success message
SelectColumns ==
    /\ mpc = "L226"
    /\ output_columns' = OutputColumns(fs.columns)
    /\ notices' = IF AvailableColumns(fs.columns) = <<>>
                    THEN notices \o <<"columns_missing", "success">>
                    ELSE Append(notices, "success")
    /\ flow' = Append(flow, "project")
    /\ mpc' = "L249"
    /\ UNCHANGED <<text_input, selected_year, corp_code, fs, exported>>
    /\ UNCHANGED <<fetchVars, resolveVars>>

\* lines 241-259: to_excel(output_df) and the download button; an exception
\* of the writer is reported and nothing is offered
Export ==
    /\ mpc = "L249"
    /\ flow' = Append(flow, "export")
    /\ \E written \in BOOLEAN :
        IF written
          THEN /\ exported' = [kind |-> "xlsx", columns |-> output_columns,
                               rows |-> fs.rows, file_year |-> selected_year]
               /\ notices' = notices
          ELSE /\ exported' = NoExport
               /\ notices' = Append(notices, "processing_error")
    /\ mpc' = "done"
    /\ UNCHANGED <<text_input, selected_year, corp_code, fs, output_columns>>
    /\ UNCHANGED <<fetchVars, resolveVars>>

MainStep ==
    \/ ClickButton
    \/ AfterResolve
    \/ CallFetchStatement
    \/ AfterFetch
    \/ SelectColumns
    \/ Export

InitMain == FetchIdle /\ ResolveIdle /\ MainIdle

NextMain ==
    \/ MainStep
    \/ ResolveStep
    \/ FetchStep

\* one press of the button
SpecMain == InitMain /\ [][NextMain]_vars

-----------------------------------------------------------------------------
(* Vocabulary of the properties of get_financial_statement *)

IsPrefix(s, t) == Len(s) <= Len(t) /\ \A i \in 1..Len(s) : s[i] = t[i]

Variant(y, r, f) == [bsns_year |-> y, reprt_code |-> r, fs_div |-> f]

\* a response that reports success and carries at least one row
Good(o) == ~o.exc /\ o.status = "000" /\ o.has_list /\ o.rows > 0

\* a parsed response that carries a status other than '000'
Rejected(o) == ~o.exc /\ o.status \notin {"absent", "000"}

\* a parsed response without an error status that carries at least one row
Usable(o) == ~o.exc /\ ~Rejected(o) /\ o.has_list /\ o.rows > 0

\* the variants of the requested year, and of the year before it
SameYearCascade(y) ==
    << Variant(y, "11011", "CFS"), Variant(y, "11011", "OFS"),
       Variant(y, "11014", "OFS"), Variant(y, "11013", "OFS") >>

FullCascade(y) ==
    IF y = current_year
      THEN Append(SameYearCascade(y), Variant(y - 1, "11011", "OFS"))
      ELSE SameYearCascade(y)

SameYearRequests == SelectSeq(fsRequests, LAMBDA r : r.bsns_year = year)

Answered == 1..Len(fsResponses)

AllSameYearRejected ==
    /\ Len(fsResponses) >= Len(SameYearCascade(year))
    /\ \A i \in 1..Len(SameYearCascade(year)) : Rejected(fsResponses[i])

-----------------------------------------------------------------------------
(* C1: the cascade stops at the first response that is successful and has  *)
(* rows; every other parsed response is followed by a request for the next *)
(* variant while variants remain.  As stated, this fails: a response with  *)
(* status '000' (or no status) and no rows ends the cascade.               *)
C1_Original ==
    \A i \in Answered :
        /\ Good(fsResponses[i]) => i = Len(fsRequests)
        /\ ( /\ fpc = "done"
             /\ ~fsResponses[i].exc
             /\ ~Good(fsResponses[i])
             /\ i < Len(FullCascade(year)) ) => i < Len(fsRequests)

(* C1, amended: every request gets one response; a parsed response with a  *)
(* status other than '000' is followed by a request for the next variant   *)
(* while variants remain; no request is issued after a parsed response     *)
(* whose status is '000' or absent, with or without rows.                  *)
C1_StopsAtFirstUnrejected ==
    /\ Len(fsRequests) = Len(fsResponses)
    /\ \A i \in Answered :
        /\ ( ~fsResponses[i].exc /\ ~Rejected(fsResponses[i]) )
              => i = Len(fsRequests)
        /\ ( /\ fpc = "done"
             /\ Rejected(fsResponses[i])
             /\ i < Len(FullCascade(year)) ) => i < Len(fsRequests)

\* a rejected variant was followed by one answering '000' with no rows, and
\* the call returned None there although variants remained
C1_Witness ==
    /\ fpc = "done"
    /\ Len(fsResponses) = 2
    /\ Rejected(fsResponses[1])
    /\ fsResponses[2].status = "000"
    /\ fsResponses[2].has_list
    /\ fsResponses[2].rows = 0
    /\ fsResult = NoneResult

-----------------------------------------------------------------------------
(* C2: a transport error at a cascade step is treated like an unsuccessful *)
(* response: the next variant is still requested while variants remain.    *)
(* As stated, this fails: the exception leaves the try block.              *)
C2_Original ==
    fpc = "done" =>
        \A i \in Answered :
            ( fsResponses[i].exc /\ i < Len(FullCascade(year)) )
                => i < Len(fsRequests)

(* C2, amended: a transport error at any cascade step ends the cascade: no *)
(* further variant is requested and the call returns None.                 *)
C2_ExceptionEndsCascade ==
    \A i \in Answered :
        fsResponses[i].exc =>
            /\ i = Len(fsRequests)
            /\ fpc = "done"
            /\ fsResult = NoneResult

\* the third request failed in transport after two rejected variants
C2_Witness ==
    /\ fpc = "done"
    /\ Len(fsResponses) = 3
    /\ Rejected(fsResponses[1])
    /\ Rejected(fsResponses[2])
    /\ fsResponses[3].exc
    /\ fsResult = NoneResult

-----------------------------------------------------------------------------
(* C3: called with the current year and every same-year variant failing,   *)
(* the fetch retries year-1 with the annual consolidated variant and then  *)
(* the annual standalone one, and returns the prior-year consolidated rows *)
(* when those are what the backend has.  As stated, this fails: the        *)
(* consolidated statement of year-1 is never requested.                    *)
C3_Original ==
    ( fpc = "done" /\ year = current_year /\ AllSameYearRejected ) =>
        \E i \in 1..Len(fsRequests) :
            /\ fsRequests[i] = Variant(year - 1, "11011", "CFS")
            /\ \/ Good(fsResponses[i])
               \/ /\ i < Len(fsRequests)
                  /\ fsRequests[i + 1] = Variant(year - 1, "11011", "OFS")

(* C3, amended: called with the current year and every same-year variant   *)
(* rejected, the fetch issues exactly one more request, the annual report  *)
(* 11011 of year-1 with scope OFS, and returns its rows when that response *)
(* is successful and has rows; year-1 is never requested with scope CFS.   *)
C3_PriorYearStandaloneOnly ==
    /\ \A i \in 1..Len(fsRequests) :
          fsRequests[i].bsns_year # year => fsRequests[i].fs_div = "OFS"
    /\ ( fpc = "done" /\ year = current_year /\ AllSameYearRejected ) =>
          /\ Len(fsRequests) = Len(SameYearCascade(year)) + 1
          /\ fsRequests[Len(fsRequests)] = Variant(year - 1, "11011", "OFS")
          /\ Good(fsResponses[Len(fsRequests)])
                => fsResult = DataFrame(fsResponses[Len(fsRequests)].rows)

\* the prior-year standalone annual report answered with rows, which were
\* returned
C3_Witness ==
    /\ fpc = "done"
    /\ year = current_year
    /\ AllSameYearRejected
    /\ Len(fsRequests) = 5
    /\ fsRequests[5] = Variant(year - 1, "11011", "OFS")
    /\ Good(fsResponses[5])
    /\ fsResult = DataFrame(fsResponses[5].rows)

-----------------------------------------------------------------------------
(* C4: the same-year requests are a prefix of (annual CFS), (annual OFS),  *)
(* (Q3 11013): the request after a failed annual standalone one is the     *)
(* 11013 report.  As stated, this fails: report 11014 is requested first.  *)
C4_Original ==
    IsPrefix(SameYearRequests,
             << Variant(year, "11011", "CFS"), Variant(year, "11011", "OFS"),
                Variant(year, "11013", "OFS") >>)

(* C4, amended: the same-year requests are a prefix of (11011, CFS),       *)
(* (11011, OFS), (11014, OFS), (11013, OFS): the request issued right      *)
(* after a rejected annual standalone request is report 11014 of the same  *)
(* year, and 11013 is requested only after 11014 was rejected too.         *)
C4_SameYearOrder ==
    /\ IsPrefix(SameYearRequests, SameYearCascade(year))
    /\ \A i \in 1..Len(fsRequests) :
          ( /\ fsRequests[i] = Variant(year, "11011", "OFS")
            /\ i < Len(fsRequests) )
              => /\ Rejected(fsResponses[i])
                 /\ fsRequests[i + 1] = Variant(year, "11014", "OFS")

\* report 11014 was requested after the rejected annual standalone request,
\* then report 11013
C4_Witness ==
    /\ Len(fsRequests) >= 4
    /\ fsRequests[2] = Variant(year, "11011", "OFS")
    /\ Rejected(fsResponses[2])
    /\ fsRequests[3] = Variant(year, "11014", "OFS")
    /\ fsRequests[4] = Variant(year, "11013", "OFS")

-----------------------------------------------------------------------------
(* C8: when no variant yields a successful response with rows, the call    *)
(* terminates and returns None after all variants have been tried, and     *)
(* raises nothing.  As stated, this fails: a transport error, or a body    *)
(* with status '000' or none and no rows, ends it before all were tried.   *)
C8_Original ==
    ( fpc = "done" /\ \A i \in Answered : ~Good(fsResponses[i]) ) =>
        /\ fsResult = NoneResult
        /\ Len(fsRequests) = Len(FullCascade(year))

(* C8, amended: once called, get_financial_statement returns, whatever the *)
(* backend answers, and it never raises; when no parsed response was both  *)
(* free of an error status (status '000' or no status) and non-empty, it   *)
(* returns None.  (Not all variants need have been tried.)                 *)
C8_TerminatesWithNone ==
    /\ (fpc = "L156") ~> (fpc = "done")
    /\ [](fsResult # Raised)
    /\ []( ( fpc = "done" /\ \A i \in Answered : ~Usable(fsResponses[i]) )
              => fsResult = NoneResult )

\* the call ended in None on a transport error at the first request, with
\* the rest of the cascade untried
C8_Witness ==
    /\ fpc = "done"
    /\ Len(fsResponses) = 1
    /\ fsResponses[1].exc
    /\ fsResult = NoneResult

-----------------------------------------------------------------------------
(* C9: within one call no exact variant is requested twice, and at most    *)
(* four distinct variants are requested.  As stated, this fails: a call    *)
(* for the current year can request five.                                  *)
C9_Original ==
    /\ \A i, j \in 1..Len(fsRequests) : fsRequests[i] = fsRequests[j] => i = j
    /\ Cardinality({ fsRequests[i] : i \in 1..Len(fsRequests) }) <= 4

(* C9, amended: within one call no exact variant is requested twice, and   *)
(* at most five distinct variants are requested (four when the year is not *)
(* the current one).                                                       *)
C9_NoVariantTwice ==
    /\ \A i, j \in 1..Len(fsRequests) : fsRequests[i] = fsRequests[j] => i = j
    /\ Cardinality({ fsRequests[i] : i \in 1..Len(fsRequests) })
          <= IF year = current_year THEN 5 ELSE 4

\* five distinct variants were requested
C9_Witness ==
    /\ Len(fsRequests) = 5
    /\ Cardinality({ fsRequests[i] : i \in 1..Len(fsRequests) }) = 5

-----------------------------------------------------------------------------
(* Vocabulary of the properties of get_company_code *)

\* the corps of the downloaded document whose name contains the query, case
\* ignored
MatchIdx ==
    { i \in 1..Len(bulk.corps) :
        Contains(Lower(company_name), Lower(bulk.corps[i].corp_name)) }

ListedCorp(c) == c.stock_code \notin {"", " "}

ShownIdx == 1..Len(shown)

\* the call went through search_companies, which downloaded a document
SearchedDocument ==
    /\ rpc = "done"
    /\ net = <<"corporation.json", "corpCode.xml">>
    /\ bulk.kind = "ok"

Min(a, b) == IF a < b THEN a ELSE b

-----------------------------------------------------------------------------
(* C5: for a query that equals a key of major_companies, get_company_code  *)
(* returns that entry's code and issues no network call.                   *)
C5_ExactMatchNoNetwork ==
    \A i \in MajorIndex :
        company_name = major_companies[i].name =>
            /\ net = <<>>
            /\ lookup = NoLookup /\ bulk = NoBulk
            /\ rpc = "done" => rResult = Code(major_companies[i].code)

\* the query NAVER returned its curated code
C5_Witness ==
    /\ rpc = "done"
    /\ company_name = <<"N", "A", "V", "E", "R">>
    /\ rResult = Code("00311863")
    /\ net = <<>>

-----------------------------------------------------------------------------
(* C6: with nothing from the static tiers and the name lookup, one         *)
(* matching entry of the reference table is returned, and several are      *)
(* reported as AmbiguousMatch with all the matches, listed first.  As      *)
(* stated, this fails: with several matches a code is returned.            *)
C6_Original ==
    SearchedDocument =>
        /\ Cardinality(MatchIdx) = 1 =>
              \E i \in MatchIdx : rResult = Code(bulk.corps[i].corp_code)
        /\ Cardinality(MatchIdx) > 1 =>
              /\ rResult.kind # "code"
              /\ Len(shown) = Cardinality(MatchIdx)
              /\ \A k, l \in ShownIdx :
                    ( k < l /\ ListedCorp(shown[l]) ) => ListedCorp(shown[k])

(* C6, amended: with nothing from the static tiers and the name lookup,    *)
(* one matching entry (name contains the query, case ignored) of the       *)
(* reference table is returned; several are offered for selection, at most *)
(* the first 10 with listed companies before unlisted ones, and the code   *)
(* of the selected one is returned.                                        *)
C6_OneOrSelected ==
    SearchedDocument =>
        LET matching == MatchIdx
            n == Cardinality(matching)
            listedMatches ==
                { bulk.corps[i].corp_code :
                    i \in { j \in matching : ListedCorp(bulk.corps[j]) } }
            shownCodes == { shown[k].corp_code : k \in ShownIdx }
        IN  /\ n = 0 => rResult = NoneCode
            /\ n = 1 =>
                  /\ \E i \in matching : rResult = Code(bulk.corps[i].corp_code)
                  /\ shown = <<>>
            /\ n > 1 =>
                  /\ Len(shown) = Min(n, 10)
                  /\ \A k \in ShownIdx :
                        \E i \in matching :
                            /\ shown[k].corp_code = bulk.corps[i].corp_code
                            /\ shown[k].corp_name = bulk.corps[i].corp_name
                            /\ shown[k].stock_code = bulk.corps[i].stock_code
                  /\ Cardinality(shownCodes) = Len(shown)
                  /\ \A k \in 1..(Len(shown) - 1) :
                        ListedCorp(shown[k + 1]) => ListedCorp(shown[k])
                  /\ ( \E k \in ShownIdx : ~ListedCorp(shown[k]) ) =>
                        listedMatches \subseteq shownCodes
                  /\ rResult.kind = "code"
                  /\ rResult.code \in shownCodes

\* more than 10 entries matched, listed and unlisted ones were offered, and
\* the code of an unlisted one came back
C6_Witness ==
    /\ SearchedDocument
    /\ Cardinality(MatchIdx) > 10
    /\ Len(shown) = 10
    /\ ListedCorp(shown[1])
    /\ ~ListedCorp(shown[10])
    /\ \E k \in ShownIdx :
          ~ListedCorp(shown[k]) /\ rResult = Code(shown[k].corp_code)

-----------------------------------------------------------------------------
(* C7: a failure of the name lookup never ends the resolution: it counts   *)
(* as no candidate, and search_companies is invoked next.                  *)
C7_LookupFailureGoesOn ==
    lookup.exc =>
        /\ rpc \in {"L123", "L125", "done"}
        /\ rpc = "L123" => /\ net = <<"corporation.json">>
                           /\ ENABLED SearchCompanies
        /\ rpc \in {"L125", "done"} => net = <<"corporation.json", "corpCode.xml">>
        /\ rpc = "done" => rResult = IF Len(search_results) = 0
                                       THEN NoneCode
                                       ELSE Code(rResult.code)

\* the lookup failed, and the document searched next gave the code
C7_Witness ==
    /\ rpc = "done"
    /\ lookup.exc
    /\ bulk.kind = "ok"
    /\ Len(search_results) = 1
    /\ rResult = Code(search_results[1].corp_code)

-----------------------------------------------------------------------------
(* C10: for a query that is no curated name but a substring of exactly one *)
(* curated name, get_company_code returns that entry's code, without       *)
(* reaching the remote tiers.                                              *)
C10_UniqueSubstring ==
    \A i \in MajorIndex :
        ( /\ \A j \in MajorIndex : company_name # major_companies[j].name
          /\ \A j \in MajorIndex :
                Contains(company_name, major_companies[j].name) <=> j = i )
        => /\ net = <<>>
           /\ rpc \notin {"L113", "L123", "L125"}
           /\ rpc = "done" => rResult = Code(major_companies[i].code)

\* "jeon-ja" alone is in two curated names, "L-G-jeon" in one: its code came
\* back from the loop over the table
C10_Witness ==
    /\ rpc = "done"
    /\ company_name = <<"L", "G", "jeon">>
    /\ rResult = Code("00356361")
    /\ net = <<>>

-----------------------------------------------------------------------------
(* C11: the list search_companies produces holds only entries of the       *)
(* document whose name contains the query, case ignored; it is ordered by  *)
(* (listed before unlisted, then ascending distance between the length of  *)
(* the name and the length of the query); it has at most 10 entries, and   *)
(* no match left out comes before one that was kept in that ordering.      *)
C11_TopTenInOrder ==
    ( rpc \in {"L125", "done"} /\ bulk.kind = "ok" ) =>
        LET matching == MatchIdx
            n == Cardinality(matching)
            len == Len(search_results)
            rank(c) == IF ListedCorp(c) THEN 0 ELSE 1
            dist(c) ==
                IF Len(c.corp_name) >= Len(company_name)
                  THEN Len(c.corp_name) - Len(company_name)
                  ELSE Len(company_name) - Len(c.corp_name)
            notAfter(c, d) ==
                \/ rank(c) < rank(d)
                \/ rank(c) = rank(d) /\ dist(c) <= dist(d)
            kept == { search_results[k].corp_code : k \in 1..len }
        IN  /\ len = Min(n, 10)
            /\ Cardinality(kept) = len
            /\ \A k \in 1..len :
                  \E i \in matching :
                      /\ search_results[k].corp_code = bulk.corps[i].corp_code
                      /\ search_results[k].corp_name = bulk.corps[i].corp_name
                      /\ search_results[k].stock_code = bulk.corps[i].stock_code
            /\ \A k \in 1..(len - 1) :
                  notAfter(search_results[k], search_results[k + 1])
            /\ \A i \in matching :
                  bulk.corps[i].corp_code \notin kept
                      => notAfter(search_results[len], bulk.corps[i])

\* twelve entries matched "Na"; the ten kept start with the six listed "NA"
\* (distance 0), which the document had after the listed "bNab" (distance 2)
C11_Witness ==
    /\ rpc \in {"L125", "done"}
    /\ bulk.kind = "ok"
    /\ company_name = <<"N", "a">>
    /\ Cardinality(MatchIdx) = 12
    /\ bulk.corps[1].corp_name = <<"b", "N", "a", "b">>
    /\ Len(search_results) = 10
    /\ \A k \in 1..6 : search_results[k].corp_name = <<"N", "A">>
    /\ \A k \in 7..10 : search_results[k].corp_name = <<"b", "N", "a", "b">>
    /\ \A k \in 1..10 : ListedCorp(search_results[k])

-----------------------------------------------------------------------------
-----------------------------------------------------------------------------
(* C17: a request for a fiscal year other than the one asked for is issued *)
(* only when the year asked for is the current calendar year, and it is    *)
(* for the year before; for any other year every request of the cascade    *)
(* carries the year asked for.                                             *)
C17_OtherYearOnlyForCurrent ==
    \A i \in 1..Len(fsRequests) :
        fsRequests[i].bsns_year # year =>
            /\ year = current_year
            /\ fsRequests[i].bsns_year = year - 1

\* a past year was asked for, its four variants were rejected, and the call
\* ended there with no request for another year
C17_Witness ==
    /\ fpc = "done"
    /\ year # current_year
    /\ Len(fsRequests) = 4
    /\ \A i \in 1..4 : Rejected(fsResponses[i]) /\ fsRequests[i].bsns_year = year
    /\ fsResult = NoneResult

-----------------------------------------------------------------------------
(* C19: get_financial_statement never returns an empty row set: what it    *)
(* returns is None, or a table built from the 'list' of the last response  *)
(* received in the call, which has at least one row, that response having  *)
(* carried no status other than '000'.                                     *)
C19_NoneOrNonEmptyTable ==
    fpc = "done" =>
        \/ fsResult = NoneResult
        \/ /\ fsResult.kind = "DataFrame"
           /\ fsResult.rows > 0
           /\ Len(fsResponses) > 0
           /\ LET last == fsResponses[Len(fsResponses)]
              IN  /\ ~last.exc
                  /\ last.status \in {"absent", "000"}
                  /\ last.has_list
                  /\ last.rows = fsResult.rows

\* the third response, the first not rejected, had rows, and they came back
C19_Witness ==
    /\ fpc = "done"
    /\ Len(fsResponses) = 3
    /\ Rejected(fsResponses[1])
    /\ Rejected(fsResponses[2])
    /\ fsResponses[3].status = "000"
    /\ fsResponses[3].rows > 0
    /\ fsResult = DataFrame(fsResponses[3].rows)

-----------------------------------------------------------------------------
(* C14: whenever get_financial_statement succeeds, its result identifies   *)
(* the variant (year, report, scope) that produced the rows: a table that  *)
(* came from a quarterly or prior-year fallback is none of the values the  *)
(* call returns when the variant first asked for, (year, 11011, CFS),      *)
(* answers with rows.  This fails: the value returned is the table alone.  *)
C14_Original ==
    ( /\ fpc = "done"
      /\ fsResult.kind = "DataFrame"
      /\ fsRequests[Len(fsRequests)] # Variant(year, "11011", "CFS") )
        => ~ \E o \in Outcomes :
                /\ Usable(o)
                /\ fsResult = DataFrame(o.rows)

-----------------------------------------------------------------------------
(* C16: within one get_company_code call the tiers are tried in order and  *)
(* the first success wins: no network call is made unless both tiers over  *)
(* the curated table fail; the name lookup is issued exactly once, before  *)
(* any download of the reference table; the reference table is downloaded  *)
(* only if the lookup produced no candidate (a status other than '000', an *)
(* empty or missing list, or a failure).                                   *)
C16_TiersInOrder ==
    LET staticHit ==
            \E i \in MajorIndex :
                \/ Contains(company_name, major_companies[i].name)
                \/ Contains(major_companies[i].name, company_name)
        candidate ==
            /\ ~lookup.exc
            /\ lookup.status = "000"
            /\ lookup.has_list
            /\ lookup.list # <<>>
    IN  /\ IsPrefix(net, <<"corporation.json", "corpCode.xml">>)
        /\ net # <<>> => ~staticHit
        /\ ( rpc = "done" /\ ~staticHit ) => net # <<>>
        /\ Len(net) = 2 => ~candidate
        /\ ( rpc = "done" /\ candidate ) =>
              /\ net = <<"corporation.json">>
              /\ rResult = Code(lookup.list[1])
              /\ bulk = NoBulk

\* the lookup answered status '013' with a list of candidates, which is no
\* candidate: the reference table was downloaded next and gave the code
C16_Witness ==
    /\ rpc = "done"
    /\ lookup.status = "013"
    /\ lookup.list # <<>>
    /\ net = <<"corporation.json", "corpCode.xml">>
    /\ bulk.kind = "ok"
    /\ rResult.kind = "code"

-----------------------------------------------------------------------------
(* C15: the reference table is downloaded only when the cache is empty or  *)
(* older than its TTL: over resolutions that reach the search of the       *)
(* reference table, with no clear of the cache and no time passing, at     *)
(* most one download is issued.  As stated, this fails: there is no cache. *)
C15_Original == downloads <= 1

(* C15, amended: search_companies keeps no cache: every resolution that    *)
(* reaches the search of the reference table downloads corpCode.xml once   *)
(* more, so there have been as many downloads as such resolutions.         *)
C15_DownloadPerSearch ==
    /\ downloads = searches
    /\ rpc \in {"L125", "done"} =>
          ( bulk # NoBulk <=> net = <<"corporation.json", "corpCode.xml">> )
    /\ rpc = "L123" => ENABLED SearchCompanies

\* the second resolution that searched the reference table downloaded it
\* again
C15_Witness ==
    /\ rpc = "done"
    /\ searches = 2
    /\ downloads = 2
    /\ net = <<"corporation.json", "corpCode.xml">>
    /\ bulk.kind = "ok"

-----------------------------------------------------------------------------
(* Vocabulary of the properties of the button handler *)

Range(s) == { s[i] : i \in 1..Len(s) }

Preferred == {"sj_nm", "account_nm", "thstrm_amount", "frmtrm_amount"}

WhiteSpaceOnly(s) == \A i \in 1..Len(s) : s[i] = " "

Shown(notice) == \E i \in 1..Len(notices) : notices[i] = notice

-----------------------------------------------------------------------------
(* C13: after a successful fetch the columns exported are the preferred    *)
(* columns (sj_nm, account_nm, thstrm_amount, frmtrm_amount) that the rows *)
(* have; when the rows have none of the four, every column of the rows is  *)
(* exported as it is, a warning is shown, and the export is still started. *)
C13_PreferredColumnsOrAll ==
    ( mpc \in {"L249", "done"} /\ Len(flow) >= 3 ) =>
        LET present == Range(fs.columns) \cap Preferred
        IN  /\ present # {} =>
                  /\ Range(output_columns) = present
                  /\ Len(output_columns) = Cardinality(present)
                  /\ ~Shown("columns_missing")
            /\ present = {} =>
                  /\ output_columns = fs.columns
                  /\ Shown("columns_missing")
            /\ mpc = "L249" => ENABLED Export
            /\ mpc = "done" => flow[Len(flow)] = "export"
            /\ exported.kind = "xlsx" =>
                  /\ exported.columns = output_columns
                  /\ exported.rows = fs.rows

\* the rows had none of the four columns: the warning was shown and the two
\* columns they had were written to the file
C13_Witness ==
    /\ mpc = "done"
    /\ fs.columns = <<"rcept_no", "ord">>
    /\ Shown("columns_missing")
    /\ exported.kind = "xlsx"
    /\ exported.columns = <<"rcept_no", "ord">>

-----------------------------------------------------------------------------
(* C18: the handler's operations occur only in the order resolve, fetch,   *)
(* project, export: get_financial_statement is called only after           *)
(* get_company_code returned an identifier, never after None; the export   *)
(* is made only after get_financial_statement returned a table with rows;  *)
(* a text of white space only starts no resolution and no network call.    *)
C18_ResolveFetchProjectExport ==
    /\ IsPrefix(flow, <<"resolve", "fetch", "project", "export">>)
    /\ ( mpc # "idle" /\ WhiteSpaceOnly(text_input) ) =>
          /\ flow = <<>>
          /\ rpc = "idle" /\ net = <<>> /\ downloads = 0
          /\ fpc = "idle" /\ fsRequests = <<>>
    /\ rpc # "idle" => flow = <<"resolve">> /\ fpc = "idle"
    /\ ( fpc # "idle" \/ Len(flow) >= 2 ) =>
          /\ corp_code.kind = "code"
          /\ rpc = "idle"
    /\ fpc # "idle" => flow = <<"resolve", "fetch">>
    /\ corp_code.kind = "None" => Len(flow) = 1 /\ mpc = "done"
    /\ Len(flow) >= 3 => fs.kind = "DataFrame" /\ fs.rows > 0
    /\ exported.kind # "none" =>
          /\ flow = <<"resolve", "fetch", "project", "export">>
          /\ fs.kind = "DataFrame" /\ fs.rows > 0

\* a text the curated table does not know was resolved over the network,
\* its statement was fetched, and the file was made
C18_Witness ==
    /\ mpc = "done"
    /\ text_input = <<"N", "a">>
    /\ corp_code.kind = "code"
    /\ downloads = 1
    /\ fs.kind = "DataFrame"
    /\ flow = <<"resolve", "fetch", "project", "export">>
    /\ exported.kind = "xlsx"

====
